---- MODULE Spec2Model ----
(***************************************************************************)
(* Model of pkg/sfu/interceptor/noise_filter.go: the noise filter factory, *)
(* the interceptor's BindRemoteStream and the noiseFilterReader (Read and  *)
(* processAudioPayload).                                                   *)
(*                                                                         *)
(* Scaling.  A frame holds rnnoiseFrameSize samples of                     *)
(* rnnoiseBytesPerSample bytes; the source uses 480 samples, the model a   *)
(* small frame so that payloads of up to MaxPayloadLen bytes cover "short",*)
(* "one frame", "frames plus remainder" and "several frames".  Packets are  *)
(* windows of a fixed byte tape (Tape), so that payload contents differ    *)
(* with their position.  float32 values are modelled as exact rationals    *)
(* <<num, den>>; every product the code forms on the paths modelled is     *)
(* either exact in float32 or is only truncated to an integer far from a   *)
(* rounding boundary.                                                      *)
(***************************************************************************)
EXTENDS Integers, Sequences, FiniteSets, TLC

(* ------------------------------------------------------------------ *)
(* Bounds of the model                                                 *)
(* ------------------------------------------------------------------ *)

\* samples per frame (480 in the source, scaled down)
rnnoiseFrameSize == 1

\* Reads each goroutine makes in a concurrent run
MaxConcReads == 1

\* longest payload the upstream reader delivers
MaxPayloadLen == 5

\* length of the serialized RTP header (12 bytes without CSRCs/extensions)
HdrLen == 2

\* the number of Reads of a recorded run
MaxRun == 3

(* ------------------------------------------------------------------ *)
(* Program constants                                                   *)
(* ------------------------------------------------------------------ *)

rnnoiseBytesPerSample == 2

rnnoiseFrameBytes == rnnoiseFrameSize * rnnoiseBytesPerSample

\* the scale between int16 samples and normalized float samples
Int16Scale == 32768

Int16Max == 32767

Int16Min == -32768

AudioLevelURI == "urn:ietf:params:rtp-hdrext:ssrc-audio-level"

(* ------------------------------------------------------------------ *)
(* Input alphabets                                                     *)
(* ------------------------------------------------------------------ *)

\* the byte stream the payloads are cut from: 128, 0, 0, 128, 0, 0, ...
\* (little-endian pairs give the samples 128, -32768 and 0)
Tape(i) == IF i % 3 = 1 THEN 128 ELSE 0

\* where in the byte stream a payload may start
Offsets == {0, 1}

\* the serialized headers the upstream reader delivers (0x80: RTP version 2)
Headers == {[i \in 1..HdrLen |-> 128]}

\* VAD thresholds, in tenths (0.5 is the default)
Thresholds == {3, 5}

StreamIds == {1, 2}

\* the engine handle: nil, or the handle NewNoiseFilter returned
NilHandle == "nil"

Handle == "rnnoise"

(* ------------------------------------------------------------------ *)
(* Sequence helpers                                                    *)
(* ------------------------------------------------------------------ *)

\* buf[lo:] of Go (lo is a 0-based offset)
DropFirst(s, k) == SubSeq(s, k + 1, Len(s))

\* buf[:k]
TakeFirst(s, k) == SubSeq(s, 1, k)

\* all sequences over S of length exactly k
SeqsOfLen(S, k) == [1..k -> S]

\* the concatenation of field f of the records of a sequence
RECURSIVE ConcatField(_, _)
ConcatField(entries, f) ==
    IF entries = <<>> THEN <<>>
    ELSE Head(entries)[f] \o ConcatField(Tail(entries), f)

\* copy(dst, src): overwrites the first min(len(dst), len(src)) elements
copy(dst, src) ==
    [i \in 1..Len(dst) |-> IF i <= Len(src) THEN src[i] ELSE dst[i]]

(* ------------------------------------------------------------------ *)
(* float32 values as exact rationals <<num, den>>, den > 0             *)
(* ------------------------------------------------------------------ *)

FMul(f, g) == <<f[1] * g[1], f[2] * g[2]>>

FGt(f, k) == f[1] > k * f[2]

FLt(f, k) == f[1] < k * f[2]

FInt(k) == <<k, 1>>

\* Go's float-to-integer conversion truncates toward zero
FTrunc(f) ==
    IF f[1] >= 0 THEN f[1] \div f[2] ELSE -((-f[1]) \div f[2])

(* ------------------------------------------------------------------ *)
(* Sample conversions of processAudioPayload                           *)
(* ------------------------------------------------------------------ *)

\* int16(binary.LittleEndian.Uint16(frame[i*2:]))
leInt16(lo, hi) ==
    LET u == lo + 256 * hi
    IN IF u >= 32768 THEN u - 65536 ELSE u

\* samples[i] = float32(int16Val) / 32768.0
bytesToSamples(frame) ==
    [i \in 1..rnnoiseFrameSize |->
        <<leInt16(frame[2 * i - 1], frame[2 * i]), Int16Scale>>]

\* binary.LittleEndian.PutUint16(processedFrame[i*2:], uint16(int16(sample)))
samplesToBytes(samples) ==
    [j \in 1..rnnoiseFrameBytes |->
        LET v == FTrunc(samples[(j + 1) \div 2])
            u == v % 65536
        IN IF j % 2 = 1 THEN u % 256 ELSE u \div 256]

(* ------------------------------------------------------------------ *)
(* The engine (rnnoise.NoiseFilter), a black box                       *)
(* ------------------------------------------------------------------ *)

\* what one FilterStream call returns: err, keepFrame and the kind of
\* denoised frame ("half": every input sample halved, "full": every
\* sample at full positive scale 1.0, "under": every sample at -2.0)
EngineOutcomes ==
    {[err |-> FALSE, keep |-> TRUE, den |-> "half"],
     [err |-> FALSE, keep |-> TRUE, den |-> "full"],
     [err |-> FALSE, keep |-> TRUE, den |-> "under"],
     [err |-> FALSE, keep |-> FALSE, den |-> "half"],
     [err |-> TRUE, keep |-> TRUE, den |-> "half"],
     [err |-> TRUE, keep |-> FALSE, den |-> "half"]}

\* denoisedFrame of FilterStream(samples, threshold)
denoisedFrame(samples, outcome) ==
    [i \in 1..Len(samples) |->
        IF outcome.den = "full" THEN FInt(1)
        ELSE IF outcome.den = "under" THEN FInt(-2)
        ELSE <<samples[i][1], 2 * samples[i][2]>>]

\* a variant that scales without clamping
clampSample_Wraps(sample) == FMul(sample, FInt(Int16Scale))

\* clampedSample of one denoised sample
clampSample(sample) ==
    LET scaled == FMul(sample, FInt(Int16Scale))
    IN IF FGt(scaled, Int16Max) THEN FInt(Int16Max)
       ELSE IF FLt(scaled, Int16Min) THEN FInt(Int16Min)
       ELSE scaled

\* the body of the frame loop between r.mu.Lock() and r.mu.Unlock():
\* samples after the engine call
suppressSamples(samples, denoiser, outcome) ==
    IF denoiser = NilHandle THEN samples
    ELSE IF ~outcome.err /\ outcome.keep
         THEN [i \in 1..Len(samples) |->
                  clampSample(denoisedFrame(samples, outcome)[i])]
    ELSE IF ~outcome.keep
         THEN [i \in 1..Len(samples) |-> FMul(samples[i], <<1, 10>>)]
    ELSE samples

\* one iteration of the frame loop: the processed bytes of one frame
processFrame(frame, denoiser, outcome) ==
    samplesToBytes(suppressSamples(bytesToSamples(frame), denoiser, outcome))

\* the frame loop: buffer is r.buffer, outcomes the engine's answers for
\* the frames still to come; the result holds processedData, the buffer
\* left and the frames handed to the engine
RECURSIVE frameLoop(_, _, _, _, _, _)
frameLoop(buffer, denoiser, threshold, outcomes, processedData, calls) ==
    IF Len(buffer) >= rnnoiseFrameBytes
    THEN LET frame == TakeFirst(buffer, rnnoiseFrameBytes)
             outcome == Head(outcomes)
             processedFrame == processFrame(frame, denoiser, outcome)
         IN frameLoop(DropFirst(buffer, rnnoiseFrameBytes), denoiser,
                      threshold, Tail(outcomes),
                      processedData \o processedFrame,
                      IF denoiser = NilHandle THEN calls
                      ELSE Append(calls, [frame |-> frame,
                                          threshold |-> threshold,
                                          outcome |-> outcome,
                                          out |-> processedFrame]))
    ELSE [processedData |-> processedData, buffer |-> buffer,
          calls |-> calls]

\* a variant that leaves the remainder in r.buffer for the next call
flushRemainder_KeepsRemainder(looped) == looped

\* "Add remaining buffer back to processed data": what is returned and
\* what r.buffer holds afterwards
flushRemainder(looped) ==
    IF Len(looped.buffer) > 0
    THEN [processedData |-> looped.processedData \o looped.buffer,
          buffer |-> <<>>, calls |-> looped.calls]
    ELSE looped

\* a variant that also passes a payload of exactly one frame through
frameTooSmall_OffByOne(payload) == Len(payload) <= rnnoiseFrameBytes

\* len(payload) < rnnoiseFrameBytes: "Frame too small, pass through"
frameTooSmall(payload) == Len(payload) < rnnoiseFrameBytes

\* a variant that buffers the payload and drains nothing
processAudioPayload_NeverDrains(buffer, denoiser, threshold, payload, outcomes) ==
    [processedData |-> payload, buffer |-> buffer \o payload, calls |-> <<>>]

\* a variant that holds a short payload back in the buffer
processAudioPayload_BuffersShort(buffer, denoiser, threshold, payload, outcomes) ==
    IF frameTooSmall(payload)
    THEN [processedData |-> <<>>, buffer |-> buffer \o payload,
          calls |-> <<>>]
    ELSE flushRemainder(
             frameLoop(buffer \o payload, denoiser, threshold, outcomes,
                       <<>>, <<>>))

\* processAudioPayload: the returned payload, r.buffer afterwards and the
\* engine calls made
processAudioPayload(buffer, denoiser, threshold, payload, outcomes) ==
    IF frameTooSmall(payload)
    THEN [processedData |-> payload, buffer |-> buffer, calls |-> <<>>]
    ELSE flushRemainder(
             frameLoop(buffer \o payload, denoiser, threshold, outcomes,
                       <<>>, <<>>))

\* the number of FilterStream answers a call of processAudioPayload needs
framesIn(buffer, payload) ==
    IF frameTooSmall(payload) THEN 0
    ELSE (Len(buffer) + Len(payload)) \div rnnoiseFrameBytes

(* ------------------------------------------------------------------ *)
(* Configuration (package audio)                                       *)
(* ------------------------------------------------------------------ *)

NoiseFilterConfig ==
    [Enabled : BOOLEAN, Threshold : Thresholds, Aggressive : BOOLEAN]

DefaultNoiseFilterConfig ==
    [Enabled |-> FALSE, Threshold |-> 5, Aggressive |-> FALSE]

\* the configurations the factory is constructed with or updated to
Configs ==
    {DefaultNoiseFilterConfig,
     [Enabled |-> TRUE, Threshold |-> 5, Aggressive |-> FALSE],
     [Enabled |-> TRUE, Threshold |-> 3, Aggressive |-> TRUE]}

(* ------------------------------------------------------------------ *)
(* Stream metadata and the RTP packet codec (external collaborators)   *)
(* ------------------------------------------------------------------ *)

AudioLevelExt(id) == [ID |-> id, URI |-> AudioLevelURI]

OtherExt(id) == [ID |-> id, URI |-> "urn:ietf:params:rtp-hdrext:sdes:mid"]

\* info.RTPHeaderExtensions: a nil slice, an empty one, or extensions
ExtensionSets ==
    {[isNil |-> TRUE, exts |-> <<>>],
     [isNil |-> FALSE, exts |-> <<>>],
     [isNil |-> FALSE, exts |-> <<AudioLevelExt(1)>>],
     [isNil |-> FALSE, exts |-> <<OtherExt(1)>>],
     [isNil |-> FALSE, exts |-> <<OtherExt(1), AudioLevelExt(2)>>]}

\* utils.GetHeaderExtensionID: the ID of the first extension with the
\* URI, 0 when there is none
GetHeaderExtensionID(exts, uri) ==
    IF \E i \in 1..Len(exts) : exts[i].URI = uri
    THEN exts[CHOOSE i \in 1..Len(exts) :
                  /\ exts[i].URI = uri
                  /\ \A j \in 1..(i - 1) : exts[j].URI # uri].ID
    ELSE 0

\* packet.Unmarshal(b[:n]): fails on a packet shorter than its header
Unmarshal(data) ==
    IF Len(data) < HdrLen
    THEN [err |-> TRUE, Header |-> <<>>, Payload |-> <<>>]
    ELSE [err |-> FALSE, Header |-> TakeFirst(data, HdrLen),
          Payload |-> DropFirst(data, HdrLen)]

\* a variant that serializes a blank header
Marshal_BlankHeader(header, payload) == [i \in 1..Len(header) |-> 0] \o payload

\* newPacket.Marshal(): the header followed by the payload
Marshal(header, payload) == header \o payload

(* ------------------------------------------------------------------ *)
(* What the underlying reader can deliver                              *)
(* ------------------------------------------------------------------ *)

NoErr == "nil"

NilAttrs == "nil"

\* the len bytes of the byte stream after offset
Window(offset, len) == [i \in 1..len |-> Tape(offset + i)]

Payloads == {Window(o, len) : o \in Offsets, len \in 0..MaxPayloadLen}

\* packets too short to hold a header, and header + payload
UpstreamPackets ==
    UNION {SeqsOfLen({128}, k) : k \in 0..(HdrLen - 1)}
    \cup {h \o p : h \in Headers, p \in Payloads}

\* what r.reader.Read(b, a) returns; pkt are the bytes it put in b[:n]
UpstreamResults ==
    {[n |-> Len(pkt), a |-> a, err |-> "EOF", pkt |-> pkt] :
        pkt \in {<<>>, <<128>>}, a \in {NilAttrs, "attrs"}}
    \cup {[n |-> Len(pkt), a |-> a, err |-> NoErr, pkt |-> pkt] :
            pkt \in UpstreamPackets, a \in {NilAttrs, "attrs"}}

\* len(b) of the buffer the caller reads into: room for any packet
BufLen == HdrLen + MaxPayloadLen

\* the caller's buffer once the underlying reader has filled b[:n]
filledBuffer(up) ==
    [i \in 1..BufLen |-> IF i <= Len(up.pkt) THEN up.pkt[i] ELSE 0]

(* ------------------------------------------------------------------ *)
(* State                                                               *)
(* ------------------------------------------------------------------ *)

VARIABLES
    factoryConfig,  \* NoiseFilterFactory.config
    readers,        \* per stream: what BindRemoteStream returned
    createFailed,   \* history: NewNoiseFilter has failed on the stream
    last,           \* the call that has just returned, with its results
    run,            \* history: the Reads of a recorded run, in order
    mu,             \* noiseFilterReader.mu of the first stream: its holder
    threads,        \* concurrent Reads: each goroutine's position and locals
    creations       \* history: successful NewNoiseFilter calls of goroutines

vars == <<factoryConfig, readers, createFailed, last, run, mu, threads,
          creations>>

\* the variables only concurrent Reads change
concVars == <<mu, threads, creations>>

\* the goroutines that call Read on one noiseFilterReader
Threads == {"g1", "g2"}

\* r.mu is not held
Unlocked == "unlocked"

\* a goroutine that is not inside Read
NotReading ==
    [pc |-> "idle", payload |-> <<>>, samples |-> <<>>,
     processedData |-> <<>>, reads |-> 0]

\* a stream BindRemoteStream has not been called for yet
Unbound ==
    [state |-> "unbound", config |-> DefaultNoiseFilterConfig,
     denoiser |-> NilHandle, buffer |-> <<>>]

\* BindRemoteStream returned the reader it was given
PlainReader ==
    [state |-> "plain", config |-> DefaultNoiseFilterConfig,
     denoiser |-> NilHandle, buffer |-> <<>>]

\* &noiseFilterReader{reader, config, denoiser: nil, buffer: empty}
noiseFilterReader(config) ==
    [state |-> "filtered", config |-> config,
     denoiser |-> NilHandle, buffer |-> <<>>]

\* no call has returned that the caller has not taken yet
Idle == [kind |-> "none"]

\* NewNoiseFilterFactory(config, logger)
Init ==
    /\ factoryConfig \in Configs
    /\ readers = [s \in StreamIds |-> Unbound]
    /\ createFailed = [s \in StreamIds |-> FALSE]
    /\ last = Idle
    /\ run = <<>>
    /\ mu = Unlocked
    /\ threads = [g \in Threads |-> NotReading]
    /\ creations = 0

(* ------------------------------------------------------------------ *)
(* Factory                                                             *)
(* ------------------------------------------------------------------ *)

\* f.config = config, under f.mu
UpdateConfig(config) ==
    /\ last = Idle
    /\ factoryConfig' = config
    /\ UNCHANGED <<readers, createFailed, last, run, concVars>>

\* return f.config, under f.mu.RLock
GetConfig == factoryConfig

(* ------------------------------------------------------------------ *)
(* NoiseFilterInterceptor.BindRemoteStream                             *)
(* ------------------------------------------------------------------ *)

\* a variant that forgets the master switch
wrapsReader_IgnoresEnabled(info, config) ==
    /\ ~info.isNil
    /\ GetHeaderExtensionID(info.exts, AudioLevelURI) # 0

\* whether BindRemoteStream wraps the reader
wrapsReader(info, config) ==
    /\ ~info.isNil
    /\ config.Enabled
    /\ GetHeaderExtensionID(info.exts, AudioLevelURI) # 0

BindRemoteStream(s, info) ==
    /\ last = Idle
    /\ readers[s].state = "unbound"
    /\ \E config \in {GetConfig} :
       \E wrapped \in {wrapsReader(info, config)} :
          /\ readers' = [readers EXCEPT ![s] =
                 IF wrapped THEN noiseFilterReader(config) ELSE PlainReader]
          /\ last' = [kind |-> "bind", stream |-> s, info |-> info,
                      config |-> config, wrapped |-> wrapped]
    /\ UNCHANGED <<factoryConfig, createFailed, run, concVars>>

(* ------------------------------------------------------------------ *)
(* noiseFilterReader.Read                                              *)
(* ------------------------------------------------------------------ *)

\* r.denoiser after "Initialize denoiser on first packet": NewNoiseFilter
\* returns a handle, or nil and an error
initDenoiser(denoiser, createOK) ==
    IF denoiser = NilHandle
    THEN (IF createOK THEN Handle ELSE NilHandle)
    ELSE denoiser

\* a variant without the r.denoiser == nil test
triesCreate_Always(denoiser) == TRUE

\* whether Read calls NewNoiseFilter
triesCreate(denoiser) == denoiser = NilHandle

\* if a == nil { a = make(interceptor.Attributes) }
ensureAttributes(a) == IF a = NilAttrs THEN "made" ELSE a

\* a variant that hides the underlying reader's failure
returnUpstreamError_Swallows(n, a, err) == [n |-> n, a |-> a, err |-> NoErr]

\* if err != nil { return n, a, err }
returnUpstreamError(n, a, err) == [n |-> n, a |-> a, err |-> err]

\* a variant that reports the engine's failure to the caller
returnCreateFailed_Propagates(n, a) ==
    [n |-> n, a |-> a, err |-> "rnnoise init failed"]

\* the return when NewNoiseFilter fails: return n, a, nil
returnCreateFailed(n, a) == [n |-> n, a |-> a, err |-> NoErr]

\* a variant that hands back an empty packet instead of the original
returnOriginal_Empty(n, a) == [n |-> 0, a |-> a, err |-> NoErr]

\* the returns that keep the original packet: return n, a, nil
returnOriginal(n, a) == [n |-> n, a |-> a, err |-> NoErr]

\* "Copy processed data back to buffer": the buffer and the length
\* returned for the re-serialized packet newData
copyBack(b, n, newData) ==
    IF Len(newData) <= Len(b)
    THEN [b |-> copy(b, newData), n |-> Len(newData), path |-> "processed"]
    ELSE [b |-> b, n |-> n, path |-> "too-large"]

\* what a Read returns and leaves behind
readResult(ret, b, denoiser, tried, p, path) ==
    [n |-> ret.n, a |-> ret.a, err |-> ret.err, b |-> b,
     denoiser |-> denoiser, buffer |-> p.buffer, tried |-> tried,
     payload |-> p.payload, processed |-> p.processedData,
     calls |-> p.calls, path |-> path]

\* a Read that does not reach processAudioPayload
notProcessed(r) ==
    [payload |-> <<>>, processedData |-> <<>>, buffer |-> r.buffer,
     calls |-> <<>>]

\* a variant that reads the factory's configuration at every packet
filterThreshold_Live(r) == GetConfig.Threshold

\* r.config.Threshold: the threshold of the reader's own configuration
filterThreshold(r) == r.config.Threshold

\* a variant that gives the engine up once a call on it has failed
denoiserAfter_DropsOnError(denoiser, calls) ==
    IF \E k \in 1..Len(calls) : calls[k].outcome.err THEN NilHandle
    ELSE denoiser

\* r.denoiser after processAudioPayload, which never assigns it
denoiserAfter(denoiser, calls) == denoiser

\* the part of Read from "Process audio payload" on
readPayload(r, up, b, a, denoiser, tried, packet, marshalOK, outcomes) ==
    LET p == processAudioPayload(r.buffer, denoiser, filterThreshold(r),
                                 packet.Payload, outcomes)
        seen == [payload |-> packet.Payload,
                 processedData |-> p.processedData,
                 buffer |-> p.buffer, calls |-> p.calls]
        cp == copyBack(b, up.n, Marshal(packet.Header, p.processedData))
        after == denoiserAfter(denoiser, p.calls)
    IN IF ~marshalOK
       THEN readResult(returnOriginal(up.n, a), b, after, tried, seen,
                       "marshal-error")
       ELSE readResult([n |-> cp.n, a |-> a, err |-> NoErr], cp.b,
                       after, tried, seen, cp.path)

\* Read on a noiseFilterReader r, given what the underlying reader
\* returned (up), the caller's buffer b as the underlying reader left it,
\* whether NewNoiseFilter and Marshal succeed and the engine's answers
readFiltered(r, up, b, createOK, marshalOK, outcomes) ==
    IF up.err # NoErr
    THEN readResult(returnUpstreamError(up.n, up.a, up.err), b,
                    r.denoiser, FALSE, notProcessed(r), "upstream-error")
    ELSE
    LET denoiser == initDenoiser(r.denoiser, createOK)
        tried == triesCreate(r.denoiser)
        a == ensureAttributes(up.a)
        packet == Unmarshal(TakeFirst(b, up.n))
    IN IF tried /\ ~createOK
       THEN readResult(returnCreateFailed(up.n, up.a), b, denoiser, tried,
                       notProcessed(r), "create-failed")
       ELSE IF packet.err
       THEN readResult(returnOriginal(up.n, a), b, denoiser, tried,
                       notProcessed(r), "parse-error")
       ELSE IF Len(packet.Payload) = 0
       THEN readResult(returnOriginal(up.n, a), b, denoiser, tried,
                       notProcessed(r), "empty-payload")
       ELSE readPayload(r, up, b, a, denoiser, tried, packet, marshalOK,
                        outcomes)

\* the number of engine answers the Read consumes
outcomesNeeded(r, up, createOK) ==
    LET packet == Unmarshal(up.pkt)
    IN IF up.err # NoErr \/ packet.err THEN 0
       ELSE IF initDenoiser(r.denoiser, createOK) = NilHandle THEN 0
       ELSE framesIn(r.buffer, packet.Payload)

\* whether the Read reaches NewNoiseFilter and Marshal: the answers of
\* calls that are not made are fixed, so that no Read is drawn twice
reachesCreate(r, up) == up.err = NoErr /\ r.denoiser = NilHandle

reachesMarshal(r, up, createOK) ==
    /\ up.err = NoErr
    /\ initDenoiser(r.denoiser, createOK) # NilHandle
    /\ Len(up.pkt) > HdrLen

\* a variant with one engine handle for all the wrapped streams
storeReader_SharedEngine(rs, s, res) ==
    [t \in StreamIds |->
        IF t = s
        THEN [rs[t] EXCEPT !.denoiser = res.denoiser, !.buffer = res.buffer]
        ELSE IF rs[t].state = "filtered"
        THEN [rs[t] EXCEPT !.denoiser = res.denoiser]
        ELSE rs[t]]

\* r.denoiser and r.buffer are fields of the stream's own
\* noiseFilterReader: a Read stores them there
storeReader(rs, s, res) ==
    [rs EXCEPT ![s].denoiser = res.denoiser, ![s].buffer = res.buffer]

\* Read on the reader BindRemoteStream returned for stream s: the call
\* and what it leaves in the reader and with the caller
readStep(s, up, createOK, marshalOK, outcomes) ==
    /\ last = Idle
    /\ readers[s].state = "filtered"
    /\ ~createOK => reachesCreate(readers[s], up)
    /\ ~marshalOK => reachesMarshal(readers[s], up, createOK)
    /\ Len(outcomes) = outcomesNeeded(readers[s], up, createOK)
    /\ \E b \in {filledBuffer(up)} :
       \E res \in {readFiltered(readers[s], up, b, createOK, marshalOK,
                                outcomes)} :
          /\ readers' = storeReader(readers, s, res)
          /\ createFailed' = [createFailed EXCEPT ![s] =
                 @ \/ (res.tried /\ res.denoiser = NilHandle)]
          /\ last' = [kind |-> "read", stream |-> s, filtered |-> TRUE,
                      up |-> up, b0 |-> b, before |-> readers[s],
                      failedBefore |-> createFailed[s],
                      marshalOK |-> marshalOK, res |-> res]
    /\ UNCHANGED <<factoryConfig, concVars>>

Read(s, up, createOK, marshalOK, outcomes) ==
    /\ readStep(s, up, createOK, marshalOK, outcomes)
    /\ UNCHANGED run

\* any Read the caller can make on the wrapped stream s
ReadCall(s) ==
    /\ last = Idle
    /\ readers[s].state = "filtered"
    /\ \E up \in UpstreamResults, createOK \in BOOLEAN, marshalOK \in BOOLEAN :
          /\ ~createOK => reachesCreate(readers[s], up)
          /\ ~marshalOK => reachesMarshal(readers[s], up, createOK)
          /\ \E outcomes \in SeqsOfLen(EngineOutcomes,
                                outcomesNeeded(readers[s], up, createOK)) :
                Read(s, up, createOK, marshalOK, outcomes)

\* Read on a stream whose reader BindRemoteStream did not wrap: the
\* underlying reader itself
ReadPlain(s, up) ==
    /\ last = Idle
    /\ readers[s].state = "plain"
    /\ \E b \in {filledBuffer(up)} :
          last' = [kind |-> "read", stream |-> s, filtered |-> FALSE,
                   up |-> up, b0 |-> b, before |-> readers[s],
                   failedBefore |-> FALSE, marshalOK |-> TRUE,
                   res |-> readResult(
                       [n |-> up.n, a |-> up.a, err |-> up.err], b,
                       NilHandle, FALSE, notProcessed(readers[s]),
                       "plain")]
    /\ UNCHANGED <<factoryConfig, readers, createFailed, run, concVars>>

(* ------------------------------------------------------------------ *)
(* The bindings NoiseFilterInterceptor takes from the embedded         *)
(* interceptor.NoOp: BindRTCPReader and BindLocalStream                *)
(* ------------------------------------------------------------------ *)

\* the reader or writer the interceptor was given
Underlying == "underlying"

\* a variant that filters control traffic while the filter is enabled
BindRTCPReader_FiltersEnabled(reader, config) ==
    IF config.Enabled THEN "filter" ELSE reader

\* NoiseFilterInterceptor has no BindRTCPReader of its own: NoOp's
\* returns the reader it was given
BindRTCPReader(reader, config) == reader

\* NoiseFilterInterceptor has no BindLocalStream of its own: NoOp's
\* returns the writer it was given
BindLocalStream(writer, config) == writer

\* Read on what BindRTCPReader returned, up being what the underlying
\* reader returns
ReadRTCP(up) ==
    /\ last = Idle
    /\ \E config \in {GetConfig} :
       \E reader \in {BindRTCPReader(Underlying, config)} :
       \E b \in {filledBuffer(up)} :
          last' = [kind |-> "rtcp", config |-> config, up |-> up, b0 |-> b,
                   res |->
                     IF reader = Underlying
                     THEN readResult(returnUpstreamError(up.n, up.a, up.err),
                                     b, NilHandle, FALSE,
                                     notProcessed(Unbound), "plain")
                     ELSE readFiltered(
                              noiseFilterReader(config), up, b, TRUE, TRUE,
                              [i \in 1..outcomesNeeded(
                                   noiseFilterReader(config), up, TRUE)
                                 |-> [err |-> FALSE, keep |-> TRUE,
                                      den |-> "half"]])]
    /\ UNCHANGED <<factoryConfig, readers, createFailed, run, concVars>>

\* what the underlying writer can return for a payload
WriteResults(payload) ==
    {[n |-> Len(payload), err |-> NoErr], [n |-> 0, err |-> "EOF"]}

\* Write on what BindLocalStream returned: the header, payload and
\* attributes the underlying writer is called with and what it returns
WriteLocal(header, payload, a, w) ==
    /\ last = Idle
    /\ \E config \in {GetConfig} :
       \E writer \in {BindLocalStream(Underlying, config)} :
          last' = [kind |-> "write", config |-> config, header |-> header,
                   payload |-> payload, a |-> a, w |-> w,
                   passed |-> IF writer = Underlying
                              THEN [header |-> header, payload |-> payload,
                                    a |-> a]
                              ELSE [header |-> header, payload |-> <<>>,
                                    a |-> ensureAttributes(a)],
                   res |-> w]
    /\ UNCHANGED <<factoryConfig, readers, createFailed, run, concVars>>

\* the caller takes what the call returned and goes on
Return ==
    /\ last # Idle
    /\ last' = Idle
    /\ UNCHANGED <<factoryConfig, readers, createFailed, run, concVars>>

(* ------------------------------------------------------------------ *)
(* Specification                                                       *)
(* ------------------------------------------------------------------ *)

Next ==
    \/ \E config \in Configs : UpdateConfig(config)
    \/ \E s \in StreamIds, info \in ExtensionSets : BindRemoteStream(s, info)
    \/ \E s \in StreamIds : ReadCall(s)
    \/ \E s \in StreamIds, up \in UpstreamResults : ReadPlain(s, up)
    \/ \E up \in UpstreamResults : ReadRTCP(up)
    \/ \E h \in Headers, p \in Payloads, a \in {NilAttrs, "attrs"} :
          \E w \in WriteResults(p) : WriteLocal(h, p, a, w)
    \/ Return

Spec == Init /\ [][Next]_vars

(* ------------------------------------------------------------------ *)
(* Recorded runs: consecutive Reads on one wrapped stream, the engine  *)
(* created at the first and keeping every frame, every packet well     *)
(* formed; run records what each Read was given and did                *)
(* ------------------------------------------------------------------ *)

\* the engine answers of a recorded run: no error, voice detected
KeepsFrame == [err |-> FALSE, keep |-> TRUE, den |-> "half"]

\* the packets of a recorded run
RunUpstream ==
    {[n |-> Len(h \o p), a |-> NilAttrs, err |-> NoErr, pkt |-> h \o p] :
        h \in Headers, p \in Payloads}

\* the frames handed to the engine, in call order
framesOf(calls) == [i \in 1..Len(calls) |-> calls[i].frame]

\* one more Read of the run on the first stream
RecordedRead(up) ==
    /\ Len(run) < MaxRun
    /\ \E s \in {CHOOSE s \in StreamIds : \A t \in StreamIds : s <= t} :
       \E outcomes \in SeqsOfLen({KeepsFrame},
                                 outcomesNeeded(readers[s], up, TRUE)) :
          /\ readStep(s, up, TRUE, TRUE, outcomes)
          /\ run' = Append(run,
                 [payload |-> last'.res.payload,
                  bufferBefore |-> last'.before.buffer,
                  threshold |-> last'.before.config.Threshold,
                  frames |-> framesOf(last'.res.calls),
                  out |-> last'.res.processed,
                  buffer |-> last'.res.buffer])

NextRun ==
    \/ \E s \in StreamIds, info \in ExtensionSets : BindRemoteStream(s, info)
    \/ \E up \in RunUpstream : RecordedRead(up)
    \/ Return

SpecRun == Init /\ [][NextRun]_vars

(* ------------------------------------------------------------------ *)
(* Concurrent Reads: goroutines calling Read on the noiseFilterReader  *)
(* of the first stream, one step per access to r.mu, r.denoiser or     *)
(* r.buffer.  An unrecovered panic ends the process.                   *)
(* ------------------------------------------------------------------ *)

\* the stream the goroutines read
FirstStream == CHOOSE s \in StreamIds : \A t \in StreamIds : s <= t

\* the payloads of concurrent Reads: short, one frame, the longest
ConcPayloads ==
    {Window(0, len) :
        len \in {rnnoiseFrameBytes - 1, rnnoiseFrameBytes, MaxPayloadLen}}

\* the engine's answers in concurrent Reads
ConcOutcomes == {KeepsFrame, [err |-> TRUE, keep |-> TRUE, den |-> "half"]}

\* bytes a reslice past len(r.buffer) can find in the backing array
StaleBytes == {0, 128}

\* no goroutine has panicked
Running == \A g \in Threads : threads[g].pc # "panic"

\* goroutine g is at position pc of Read on the first stream's reader
At(g, pc) ==
    /\ last = Idle
    /\ Running
    /\ readers[FirstStream].state = "filtered"
    /\ threads[g].pc = pc

\* goroutine g moves on to position pc
goto(g, pc) == [threads EXCEPT ![g].pc = pc]

\* Read returns to goroutine g's caller
returned(g) ==
    [threads EXCEPT ![g] = [NotReading EXCEPT !.reads = threads[g].reads + 1]]

\* Read is called and r.reader.Read delivers a packet with this payload
ConcRead(g, payload) ==
    /\ At(g, "idle")
    /\ threads[g].reads < MaxConcReads
    /\ threads' = [threads EXCEPT ![g].pc = "lockInit",
                                  ![g].payload = payload]
    /\ UNCHANGED <<factoryConfig, readers, createFailed, last, run, mu,
                   creations>>

\* r.mu.Lock() before "Initialize denoiser on first packet"
ConcLockInit(g) ==
    /\ At(g, "lockInit")
    /\ mu = Unlocked
    /\ mu' = g
    /\ threads' = goto(g, "init")
    /\ UNCHANGED <<factoryConfig, readers, createFailed, last, run,
                   creations>>

\* the locked block of Read up to r.mu.Unlock(), then the steps of Read
\* and processAudioPayload that touch only the goroutine's own data
ConcInit(g, createOK) ==
    /\ At(g, "init")
    /\ ~createOK => triesCreate(readers[FirstStream].denoiser)
    /\ \E tried \in {triesCreate(readers[FirstStream].denoiser)} :
          /\ readers' = [readers EXCEPT ![FirstStream].denoiser =
                             IF tried
                             THEN initDenoiser(NilHandle, createOK)
                             ELSE @]
          /\ creations' = IF tried /\ createOK THEN creations + 1
                          ELSE creations
          /\ createFailed' = [createFailed EXCEPT ![FirstStream] =
                                  @ \/ (tried /\ ~createOK)]
          /\ threads' = IF (tried /\ ~createOK)
                            \/ frameTooSmall(threads[g].payload)
                         THEN returned(g)
                         ELSE goto(g, "append")
    /\ mu' = Unlocked
    /\ UNCHANGED <<factoryConfig, last, run>>

\* r.buffer = append(r.buffer, payload...)
ConcAppend(g) ==
    /\ At(g, "append")
    /\ readers' = [readers EXCEPT ![FirstStream].buffer =
                       @ \o threads[g].payload]
    /\ threads' = goto(g, "loopTest")
    /\ UNCHANGED <<factoryConfig, createFailed, last, run, mu, creations>>

\* for len(r.buffer) >= rnnoiseFrameBytes
ConcLoopTest(g) ==
    /\ At(g, "loopTest")
    /\ threads' = goto(g, IF Len(readers[FirstStream].buffer)
                               >= rnnoiseFrameBytes
                          THEN "frame" ELSE "flushRead")
    /\ UNCHANGED <<factoryConfig, readers, createFailed, last, run, mu,
                   creations>>

\* frame := r.buffer[:rnnoiseFrameBytes] and its conversion to samples;
\* when another goroutine has shortened r.buffer meanwhile the reslice
\* finds stale bytes of the backing array or panics
ConcTakeFrame(g) ==
    /\ At(g, "frame")
    /\ \E buffer \in {readers[FirstStream].buffer} :
          IF Len(buffer) >= rnnoiseFrameBytes
          THEN threads' = [threads EXCEPT
                   ![g].pc = "lockEngine",
                   ![g].samples =
                       bytesToSamples(TakeFirst(buffer, rnnoiseFrameBytes))]
          ELSE \/ threads' = goto(g, "panic")
               \/ \E stale \in SeqsOfLen(StaleBytes,
                                  rnnoiseFrameBytes - Len(buffer)) :
                     threads' = [threads EXCEPT
                         ![g].pc = "lockEngine",
                         ![g].samples = bytesToSamples(buffer \o stale)]
    /\ UNCHANGED <<factoryConfig, readers, createFailed, last, run, mu,
                   creations>>

\* r.mu.Lock() before the engine call
ConcLockEngine(g) ==
    /\ At(g, "lockEngine")
    /\ mu = Unlocked
    /\ mu' = g
    /\ threads' = goto(g, "engine")
    /\ UNCHANGED <<factoryConfig, readers, createFailed, last, run,
                   creations>>

\* the locked block of the frame loop up to r.mu.Unlock(), and the
\* conversion of the samples to processedFrame
ConcEngine(g, outcome) ==
    /\ At(g, "engine")
    /\ threads' = [threads EXCEPT
           ![g].pc = "trim",
           ![g].samples = <<>>,
           ![g].processedData = @ \o samplesToBytes(
               suppressSamples(threads[g].samples,
                               readers[FirstStream].denoiser, outcome))]
    /\ mu' = Unlocked
    /\ UNCHANGED <<factoryConfig, readers, createFailed, last, run,
                   creations>>

\* r.buffer = r.buffer[rnnoiseFrameBytes:], which panics when another
\* goroutine has shortened r.buffer below a frame meanwhile
ConcTrim(g) ==
    /\ At(g, "trim")
    /\ IF Len(readers[FirstStream].buffer) >= rnnoiseFrameBytes
       THEN /\ readers' = [readers EXCEPT ![FirstStream].buffer =
                               DropFirst(@, rnnoiseFrameBytes)]
            /\ threads' = goto(g, "loopTest")
       ELSE /\ threads' = goto(g, "panic")
            /\ UNCHANGED readers
    /\ UNCHANGED <<factoryConfig, createFailed, last, run, mu, creations>>

\* if len(r.buffer) > 0 { processedData = append(processedData, r.buffer...)
ConcFlushRead(g) ==
    /\ At(g, "flushRead")
    /\ threads' = IF Len(readers[FirstStream].buffer) > 0
                  THEN [threads EXCEPT
                           ![g].pc = "flushClear",
                           ![g].processedData =
                               @ \o readers[FirstStream].buffer]
                  ELSE returned(g)
    /\ UNCHANGED <<factoryConfig, readers, createFailed, last, run, mu,
                   creations>>

\* r.buffer = r.buffer[:0], then the return of processAudioPayload and
\* of Read
ConcFlushClear(g) ==
    /\ At(g, "flushClear")
    /\ readers' = [readers EXCEPT ![FirstStream].buffer = <<>>]
    /\ threads' = returned(g)
    /\ UNCHANGED <<factoryConfig, createFailed, last, run, mu, creations>>

NextConc ==
    \/ \E info \in ExtensionSets : BindRemoteStream(FirstStream, info)
    \/ Return
    \/ \E g \in Threads, payload \in ConcPayloads : ConcRead(g, payload)
    \/ \E g \in Threads : ConcLockInit(g)
    \/ \E g \in Threads, createOK \in BOOLEAN : ConcInit(g, createOK)
    \/ \E g \in Threads : ConcAppend(g)
    \/ \E g \in Threads : ConcLoopTest(g)
    \/ \E g \in Threads : ConcTakeFrame(g)
    \/ \E g \in Threads : ConcLockEngine(g)
    \/ \E g \in Threads, outcome \in ConcOutcomes : ConcEngine(g, outcome)
    \/ \E g \in Threads : ConcTrim(g)
    \/ \E g \in Threads : ConcFlushRead(g)
    \/ \E g \in Threads : ConcFlushClear(g)

SpecConc == Init /\ [][NextConc]_vars

\* the steps of goroutine g inside Read
GoroutineStep(g) ==
    \/ ConcLockInit(g)
    \/ \E createOK \in BOOLEAN : ConcInit(g, createOK)
    \/ ConcAppend(g)
    \/ ConcLoopTest(g)
    \/ ConcTakeFrame(g)
    \/ ConcLockEngine(g)
    \/ \E outcome \in ConcOutcomes : ConcEngine(g, outcome)
    \/ ConcTrim(g)
    \/ ConcFlushRead(g)
    \/ ConcFlushClear(g)

\* the scheduler runs every goroutine that can take a step, and
\* NewNoiseFilter and FilterStream return
SpecConcFair ==
    SpecConc /\ \A g \in Threads : WF_vars(GoroutineStep(g))

(* ------------------------------------------------------------------ *)
(* Properties                                                          *)
(* ------------------------------------------------------------------ *)

\* a Read on a wrapped stream has just returned
FilteredRead == last.kind = "read" /\ last.filtered

\* a Read on an unwrapped stream has just returned
PlainRead == last.kind = "read" /\ ~last.filtered

UpstreamOK == last.up.err = NoErr

\* the payload of the packet the underlying reader delivered
UpstreamPayload == DropFirst(last.up.pkt, HdrLen)

\* this Read called NewNoiseFilter and it failed
CreateFailedNow == last.res.tried /\ last.res.denoiser = NilHandle

\* the packet the underlying reader delivered does not parse
ParseFails == Len(last.up.pkt) < HdrLen

\* the caller holds the packet exactly as the underlying reader left it
OriginalPacketReturned ==
    /\ last.res.n = last.up.n
    /\ last.res.b = last.b0
    /\ last.res.err = NoErr

\* C1: a Read on a wrapped stream fails if and only if the underlying
\* reader failed on that call, and a successful upstream read of n > 0
\* bytes returns a length > 0.
C1_OnlyTransportFailuresSurface ==
    FilteredRead =>
        /\ (last.res.err # NoErr) <=> (last.up.err # NoErr)
        /\ (UpstreamOK /\ last.up.n > 0) => last.res.n > 0

\* C1 witness: NewNoiseFilter failed on a non-empty packet and the Read
\* returned without failure.
C1_Witness ==
    /\ FilteredRead
    /\ UpstreamOK
    /\ CreateFailedNow
    /\ last.up.n > 0
    /\ last.res.err = NoErr

\* C2: once NewNoiseFilter has failed on a stream, no later Read on that
\* stream calls it again and every later packet comes back unchanged.
C2_DegradedIsTerminal ==
    (FilteredRead /\ UpstreamOK /\ last.failedBefore) =>
        /\ ~last.res.tried
        /\ OriginalPacketReturned

\* the extension set holds the audio-level extension
HasAudioLevel(info) ==
    /\ ~info.isNil
    /\ \E i \in 1..Len(info.exts) : info.exts[i].URI = AudioLevelURI

\* C3: BindRemoteStream wraps the reader only if the configuration read at
\* bind time is enabled and the extension set holds the audio-level
\* extension; otherwise it returns the reader it was given, whose Reads
\* return exactly what the underlying reader returned.
C3_WrapsOnlyEnabledAudio ==
    /\ last.kind = "bind" =>
          /\ last.config = factoryConfig
          /\ last.wrapped => (last.config.Enabled /\ HasAudioLevel(last.info))
          /\ readers[last.stream].state =
                 (IF last.wrapped THEN "filtered" ELSE "plain")
    /\ \A s \in StreamIds :
          readers[s].state = "filtered" => readers[s].config.Enabled
    /\ PlainRead =>
          /\ last.res.n = last.up.n
          /\ last.res.b = last.b0
          /\ last.res.a = last.up.a
          /\ last.res.err = last.up.err

\* this Read ran processAudioPayload on the packet's payload
Processed ==
    /\ FilteredRead
    /\ UpstreamOK
    /\ ~CreateFailedNow
    /\ ~ParseFails
    /\ Len(UpstreamPayload) > 0

Chunk(bytes, k) ==
    SubSeq(bytes, (k - 1) * rnnoiseFrameBytes + 1, k * rnnoiseFrameBytes)

WholeFramePayloads ==
    \A i \in 1..Len(run) : Len(run[i].payload) % rnnoiseFrameBytes = 0

SpansFrameBoundary(A, B) ==
    /\ Len(A) > 0
    /\ Len(B) > 0
    /\ Len(A) + Len(B) > rnnoiseFrameBytes

\* what one call of processAudioPayload makes of payload, from the filter
\* state the recorded run started in
OneCall(payload) ==
    processAudioPayload(
        run[1].bufferBefore, Handle, run[1].threshold, payload,
        [i \in 1..framesIn(run[1].bufferBefore, payload) |-> KeepsFrame])

\* the frames, output bytes and accumulator of the recorded run are those
\* of one call on the concatenated payloads
SameAsOneCall ==
    LET one == OneCall(ConcatField(run, "payload"))
    IN /\ ConcatField(run, "frames") = framesOf(one.calls)
       /\ ConcatField(run, "out") = one.processedData
       /\ run[Len(run)].buffer = one.buffer

SampleAt(frame, i) == leInt16(frame[2 * i - 1], frame[2 * i])

\* C7: a frame the engine reports no voice for is emitted with every
\* sample at 10% of the input sample (truncated to an integer), so an
\* input sample of magnitude >= 10 is emitted non-zero.
C7_NoiseFramesAttenuated ==
    (FilteredRead /\ last.res.path = "processed") =>
        \A k \in 1..Len(last.res.calls) :
            LET c == last.res.calls[k]
            IN (~c.outcome.err /\ ~c.outcome.keep) =>
                  \A i \in 1..rnnoiseFrameSize :
                      SampleAt(c.out, i) = FTrunc(<<SampleAt(c.frame, i), 10>>)

\* C8: a frame whose engine call returns an error is emitted unchanged,
\* whatever the voice flag.
C8_EngineErrorKeepsFrame ==
    (FilteredRead /\ last.res.path = "processed") =>
        \A k \in 1..Len(last.res.calls) :
            LET c == last.res.calls[k]
            IN c.outcome.err => c.out = c.frame

\* C9: a Read whose payload is shorter than a frame returns the packet
\* with its length and bytes unchanged and leaves the accumulator as it
\* was.
C9_ShortPayloadUntouched ==
    (FilteredRead /\ UpstreamOK /\ ~ParseFails
       /\ Len(UpstreamPayload) < rnnoiseFrameBytes) =>
        /\ OriginalPacketReturned
        /\ last.res.buffer = last.before.buffer
        /\ readers[last.stream].buffer = last.before.buffer

\* C9 witness: a non-empty payload shorter than a frame went through
\* processAudioPayload and was re-serialized.
C9_Witness ==
    /\ Processed
    /\ last.marshalOK
    /\ Len(UpstreamPayload) < rnnoiseFrameBytes

\* the re-serialized packet does not fit the caller's buffer
TooLarge ==
    /\ Processed
    /\ last.marshalOK
    /\ HdrLen + Len(last.res.processed) > Len(last.b0)

\* C10: when NewNoiseFilter fails on this packet, the packet does not
\* parse, Marshal fails or the re-serialized packet does not fit, the
\* caller's buffer holds the original packet, the original length and no
\* error are returned; no Read changes the length of the caller's buffer.
C10_FallbackReturnsOriginal ==
    FilteredRead =>
        /\ Len(last.res.b) = Len(last.b0)
        /\ (UpstreamOK /\ (\/ CreateFailedNow
                           \/ ParseFails
                           \/ (Processed /\ ~last.marshalOK)
                           \/ TooLarge)) => OriginalPacketReturned

\* C10 witness: Marshal failed after the payload had been processed into
\* different bytes.
C10_Witness ==
    /\ Processed
    /\ ~last.marshalOK
    /\ last.res.processed # UpstreamPayload

\* C3 witness: a stream with the audio-level extension was bound while the
\* filter was disabled, and was not wrapped.
C3_Witness ==
    /\ last.kind = "bind"
    /\ HasAudioLevel(last.info)
    /\ ~last.config.Enabled
    /\ ~last.wrapped

\* C11: when the underlying reader fails, Read returns that failure with
\* the same n and attributes, without calling NewNoiseFilter and with the
\* caller's buffer, the accumulator and the engine handle as they were.
C11_UpstreamFailurePropagates ==
    (FilteredRead /\ ~UpstreamOK) =>
        /\ last.res.err = last.up.err
        /\ last.res.n = last.up.n
        /\ last.res.a = last.up.a
        /\ last.res.b = last.b0
        /\ ~last.res.tried
        /\ last.res.calls = <<>>
        /\ readers[last.stream].buffer = last.before.buffer
        /\ readers[last.stream].denoiser = last.before.denoiser

\* C11 witness: the underlying reader failed, with some bytes read and no
\* attributes, on a stream whose engine had not been created yet.
C11_Witness ==
    /\ FilteredRead
    /\ ~UpstreamOK
    /\ last.up.n > 0
    /\ last.up.a = NilAttrs
    /\ last.before.denoiser = NilHandle

\* the frame holds only zero samples
ZeroFrame(frame) == \A j \in 1..Len(frame) : frame[j] = 0

\* the engine reported voice without error on this call
VoiceKept(c) == ~c.outcome.err /\ c.outcome.keep

\* C12: a voice-detected frame is emitted as the engine's samples times
\* 32768 clamped to [-32768, 32767] (full positive scale gives 32767,
\* never a negative value), and an all-zero frame taken through the
\* non-speech branch is emitted all zero.
C12_RequantizationClamps ==
    (FilteredRead /\ last.res.path = "processed") =>
        \A k \in 1..Len(last.res.calls) :
            LET c == last.res.calls[k]
            IN /\ VoiceKept(c) =>
                    \A i \in 1..rnnoiseFrameSize :
                        /\ SampleAt(c.out, i) \in Int16Min..Int16Max
                        /\ c.outcome.den = "full" =>
                               SampleAt(c.out, i) = Int16Max
                        /\ c.outcome.den = "under" =>
                               SampleAt(c.out, i) = Int16Min
                        /\ c.outcome.den = "half" =>
                               SampleAt(c.out, i) =
                                   FTrunc(<<SampleAt(c.frame, i), 2>>)
               /\ (~c.outcome.err /\ ~c.outcome.keep /\ ZeroFrame(c.frame))
                     => ZeroFrame(c.out)

\* C12 witness: one packet held an all-zero frame the engine reported no
\* voice for and a frame the engine returned at full positive scale.
C12_Witness ==
    /\ FilteredRead
    /\ last.res.path = "processed"
    /\ \E k \in 1..Len(last.res.calls) :
           LET c == last.res.calls[k]
           IN ~c.outcome.err /\ ~c.outcome.keep /\ ZeroFrame(c.frame)
    /\ \E k \in 1..Len(last.res.calls) :
           LET c == last.res.calls[k]
           IN VoiceKept(c) /\ c.outcome.den = "full"

\* what BindRemoteStream decided for a stream is what it still is
BindingKept ==
    \A s \in StreamIds :
        readers[s].state # "unbound" =>
            /\ readers'[s].state = readers[s].state
            /\ readers'[s].config = readers[s].config

\* C13: BindRemoteStream uses the factory's configuration of the moment;
\* no later step, UpdateConfig included, changes whether a bound stream
\* is filtered or its configuration, and every engine call of a Read is
\* made with the threshold the stream was bound with.
C13_ConfigFixedAtBind ==
    /\ [](last.kind = "bind" =>
            /\ last.config = factoryConfig
            /\ last.wrapped => readers[last.stream].config = last.config)
    /\ [](FilteredRead =>
            \A k \in 1..Len(last.res.calls) :
                last.res.calls[k].threshold =
                    readers[last.stream].config.Threshold)
    /\ [][BindingKept]_vars

\* C13 witness: a Read on a stream bound before the configuration was
\* updated to another threshold has called the engine.
C13_Witness ==
    /\ FilteredRead
    /\ Len(last.res.calls) > 0
    /\ factoryConfig.Threshold # readers[last.stream].config.Threshold

\* a call on a control-channel reader or a local writer leaves the
\* factory and every stream's filter as they were
PassThroughTouchesNothing ==
    last'.kind \in {"rtcp", "write"} =>
        UNCHANGED <<factoryConfig, readers, createFailed>>

\* C14: a Read on a reader bound with BindRTCPReader returns what the
\* underlying reader returned (bytes, length, attributes, nil attributes
\* included, and error), a Write on a writer bound with BindLocalStream
\* hands the underlying writer what it was given and returns its result,
\* whatever the configuration; neither creates or touches filter state.
C14_ControlAndLocalPassThrough ==
    /\ [](last.kind = "rtcp" =>
            /\ last.res.n = last.up.n
            /\ last.res.a = last.up.a
            /\ last.res.err = last.up.err
            /\ last.res.b = last.b0
            /\ ~last.res.tried
            /\ last.res.calls = <<>>)
    /\ [](last.kind = "write" =>
            /\ last.passed.header = last.header
            /\ last.passed.payload = last.payload
            /\ last.passed.a = last.a
            /\ last.res = last.w)
    /\ [][PassThroughTouchesNothing]_vars

\* C14 witness: with the filter enabled, a control-channel Read returned
\* a packet of at least one frame with nil attributes.
C14_Witness ==
    /\ last.kind = "rtcp"
    /\ last.config.Enabled
    /\ last.up.err = NoErr
    /\ last.up.a = NilAttrs
    /\ last.up.n >= HdrLen + rnnoiseFrameBytes
    /\ last.res.a = NilAttrs

\* C15: a Read on a wrapped stream that returns without failure returns
\* an attribute map: a new empty one when the underlying reader gave
\* none, on every path that does not fail, the underlying reader's own
\* otherwise.
C15_AttributesNeverNil ==
    (FilteredRead /\ last.res.err = NoErr) =>
        /\ last.res.a # NilAttrs
        /\ last.up.a = NilAttrs => last.res.a = "made"
        /\ last.up.a # NilAttrs => last.res.a = last.up.a

\* the positions of Read at which the next step reads or writes r.buffer
AccumulatorSteps ==
    {"append", "loopTest", "frame", "trim", "flushRead", "flushClear"}

\* C16: a goroutine about to read or write the accumulator holds the
\* filter's lock, so no two goroutines are at an access to the
\* accumulator at the same time.
C16_AccumulatorUnderLock ==
    /\ \A g \in Threads :
          threads[g].pc \in AccumulatorSteps => mu = g
    /\ \A g, h \in Threads :
          (threads[g].pc \in AccumulatorSteps
             /\ threads[h].pc \in AccumulatorSteps) => g = h

\* an engine handle, once there, is the handle of the next state
HandleKept ==
    readers[FirstStream].denoiser # NilHandle =>
        readers'[FirstStream].denoiser = readers[FirstStream].denoiser

\* C17: whatever the interleaving of the goroutines' Reads on one
\* filter, NewNoiseFilter succeeds at most once for it, the filter has a
\* handle exactly when it did, and the handle is never replaced, so
\* every engine call is made on the one handle.
C17_SingleEngineCreation ==
    /\ [](creations <= 1)
    /\ [](creations = 1 <=> readers[FirstStream].denoiser # NilHandle)
    /\ [](\A g \in Threads :
            threads[g].pc \in {"append", "loopTest", "frame", "lockEngine",
                               "engine", "trim", "flushRead", "flushClear"}
                => readers[FirstStream].denoiser = Handle)
    /\ [][HandleKept]_vars

\* C17 witness: both goroutines are past the initialization block of
\* their Reads, one of them waiting for the lock of the engine call the
\* other is making.
C17_Witness ==
    /\ creations = 1
    /\ \E g, h \in Threads :
          /\ threads[g].pc = "engine"
          /\ threads[h].pc = "lockEngine"

\* the number of complete frames of this Read's payload
CompleteFrames ==
    IF Len(UpstreamPayload) < rnnoiseFrameBytes THEN 0
    ELSE (Len(last.before.buffer) + Len(UpstreamPayload))
             \div rnnoiseFrameBytes

\* the engine call on some frame of this Read returned an error
EngineErred ==
    \E k \in 1..Len(last.res.calls) : last.res.calls[k].outcome.err

\* C18: an engine error does not degrade the stream: a Read keeps the
\* handle the filter has, also when engine calls fail in it, and a Read
\* on a filter with a handle submits every complete frame of its
\* payload, the frames after a failed call included.
C18_EngineErrorDoesNotDegrade ==
    FilteredRead =>
        /\ last.before.denoiser = Handle =>
               readers[last.stream].denoiser = Handle
        /\ EngineErred =>
               /\ last.res.denoiser = Handle
               /\ readers[last.stream].denoiser = Handle
        /\ (Processed /\ last.res.denoiser = Handle) =>
               Len(last.res.calls) = CompleteFrames

\* C18 witness: on a filter that already had its handle, the engine
\* call on the first frame of a packet failed and the second frame was
\* submitted all the same.
C18_Witness ==
    /\ FilteredRead
    /\ last.before.denoiser = Handle
    /\ Len(last.res.calls) >= 2
    /\ last.res.calls[1].outcome.err
    /\ ~last.res.calls[2].outcome.err

\* C19: a Read on a wrapped stream returns the packet of its own single
\* read of the underlying reader: a packet that does not parse comes back
\* as it is, any other comes back with the header bytes it arrived with,
\* and a packet of n > 0 bytes is never answered with an empty one.
C19_OnePacketPerReadHeaderKept ==
    (FilteredRead /\ UpstreamOK) =>
        /\ last.res.err = NoErr
        /\ last.up.n > 0 => last.res.n > 0
        /\ ParseFails => OriginalPacketReturned
        /\ ~ParseFails =>
               /\ last.res.n >= HdrLen
               /\ TakeFirst(last.res.b, HdrLen) = TakeFirst(last.up.pkt, HdrLen)

\* C19 witness: a packet came back with a changed payload behind its
\* header.
C19_Witness ==
    /\ Processed
    /\ last.res.path = "processed"
    /\ last.res.processed # UpstreamPayload

\* C20: a Read on a filter with its engine calls it once per complete
\* frame of the N-byte payload, floor(N / frameBytes) times for N of at
\* least a frame and not at all for a shorter one, on the consecutive
\* frame-sized slices of the payload in order, each time with the
\* threshold of the configuration the stream was bound with.
C20_OneEngineCallPerFrame ==
    (Processed /\ last.res.denoiser = Handle) =>
        LET N == Len(UpstreamPayload)
        IN /\ Len(last.res.calls) =
                  (IF N < rnnoiseFrameBytes THEN 0
                   ELSE N \div rnnoiseFrameBytes)
           /\ \A k \in 1..Len(last.res.calls) :
                  /\ last.res.calls[k].frame = Chunk(UpstreamPayload, k)
                  /\ last.res.calls[k].threshold =
                         last.before.config.Threshold

\* C20 witness: a payload of two frames and a leftover byte made two
\* engine calls, on a stream bound before the threshold was changed.
C20_Witness ==
    /\ Processed
    /\ Len(UpstreamPayload) = 2 * rnnoiseFrameBytes + 1
    /\ Len(last.res.calls) = 2
    /\ last.before.config.Threshold # factoryConfig.Threshold

\* a Read leaves every other stream's reader as it was
OtherStreamsKept ==
    last'.kind = "read" =>
        \A t \in StreamIds \ {last'.stream} : readers'[t] = readers[t]

\* C21: a Read on one stream leaves the accumulator, the engine handle
\* and the configuration of every other stream's filter unchanged, a
\* Read in which NewNoiseFilter fails included.
C21_NoStateAcrossStreams == [][OtherStreamsKept]_vars

\* C21 witness: NewNoiseFilter has just failed on one wrapped stream
\* while the other wrapped stream has its engine.
C21_Witness ==
    /\ FilteredRead
    /\ CreateFailedNow
    /\ \E t \in StreamIds \ {last.stream} :
          /\ readers[t].state = "filtered"
          /\ readers[t].denoiser = Handle

\* C22: after every pass of processAudioPayload, in any sequence of
\* serialized Reads, the accumulator holds less than one frame.
C22_AccumulatorBelowFrame ==
    /\ \A s \in StreamIds : Len(readers[s].buffer) < rnnoiseFrameBytes
    /\ FilteredRead => Len(last.res.buffer) < rnnoiseFrameBytes

\* C22 witness: on a filter that had read packets before, a payload of
\* whole frames and a leftover has been through the frame loop.
C22_Witness ==
    /\ Processed
    /\ last.before.denoiser = Handle
    /\ Len(last.res.calls) >= 1
    /\ Len(UpstreamPayload) % rnnoiseFrameBytes # 0

\* C23: with serialized Reads the processed payload is as long as the
\* payload read, so a Read that does not fail returns the length the
\* underlying reader delivered and the "processed packet too large for
\* buffer" return is never taken.
C23_LengthPreserved ==
    /\ Processed => Len(last.res.processed) = Len(UpstreamPayload)
    /\ (FilteredRead /\ UpstreamOK) =>
          /\ last.res.n = last.up.n
          /\ last.res.path # "too-large"
          /\ ~TooLarge

\* C23 witness: a packet that filled the caller's buffer to the last
\* byte, with whole frames and a leftover, was processed and copied back.
C23_Witness ==
    /\ Processed
    /\ last.res.path = "processed"
    /\ last.up.n = Len(last.b0)
    /\ Len(last.res.calls) >= 1
    /\ Len(UpstreamPayload) % rnnoiseFrameBytes # 0
    /\ last.res.processed # UpstreamPayload

\* r.mu is held only by a goroutine inside one of Read's locked blocks
LockHeldInsideRead ==
    /\ mu # Unlocked => threads[mu].pc \in {"init", "engine"}
    /\ \A g \in Threads : threads[g].pc \in {"init", "engine"} => mu = g

\* C24: r.mu is held only inside Read's locked blocks, so it is free
\* whenever no Read is in progress, and every Read a goroutine has
\* started on the filter returns, whatever the other goroutine does.
C24_LockReleasedReadsReturn ==
    /\ []LockHeldInsideRead
    /\ \A g \in Threads :
          (threads[g].pc # "idle") ~> (threads[g].pc = "idle")

====
